---- MODULE Spec2Model ----
(***************************************************************************)
(* Model of code_traverser.py: the prompt maker that walks a folder,       *)
(* selects files with valid_filename, reads them and writes one fenced     *)
(* block per file to an output file.                                       *)
(*                                                                         *)
(* A Python str is a sequence of one-character strings.  The file system   *)
(* is a directory tree (what os.walk lists) and a map from path to         *)
(* content (what open() reads and writes).                                 *)
(***************************************************************************)
EXTENDS Integers, Sequences, FiniteSets, TLC

VARIABLES
    folder_path,   \* argument of create_prompt_file
    output_file,   \* argument of create_prompt_file (default 'prompt.md')
    tree,          \* the directory found at folder_path, as os.walk lists it
    fs,            \* regular files: path -> content
    bad,           \* paths whose open()/read() raises (decode or access error)
    ro,            \* paths of files that may not be opened for writing
    pc,            \* position in create_prompt_file
    wi,            \* index of the (root, dirs, files) triple os.walk has yielded
    fi,            \* index of the next file_name of that triple
    file_details,  \* the list built by extract_file_details
    wpos,          \* number of records write_to_file has written
    stdout,        \* what print() has emitted
    err,           \* the exception that ended the current run, or "none"
    run,           \* number of the current call of create_prompt_file
    fsStart,       \* fs when the current call started
    treeStart,     \* tree when the current call started
    outs,          \* content of the output file at the end of each call
    p,             \* a path string handed to valid_filename
    verdict,       \* what valid_filename answered for p
    tag            \* the language tag write_to_file computes for p

vars == <<folder_path, output_file, tree, fs, bad, ro, pc, wi, fi, file_details,
          wpos, stdout, err, run, fsStart, treeStart, outs, p, verdict, tag>>

----------------------------------------------------------------------------
(* Bounds of the model *)

\* longest list of file names in the top directory
MaxFiles == 1
\* number of calls of create_prompt_file in a row
MaxRuns == 2
\* longest list of records handed to write_to_file on its own
MaxRecs == 2
\* number of fragments a path string is built from
MaxFrags == 2

----------------------------------------------------------------------------
(* Python str operations *)

\* the line feed and the backquote, two characters no TLA+ string literal spells
NL == "LF"
BQ == "BQ"

\* str.endswith
endswith(s, suf) ==
    /\ Len(s) >= Len(suf)
    /\ SubSeq(s, Len(s) - Len(suf) + 1, Len(s)) = suf

\* the `in` operator on two str
contains(s, sub) ==
    \E i \in 0..(Len(s) - Len(sub)) : SubSeq(s, i + 1, i + Len(sub)) = sub

\* str.rfind of one character: the highest 0-based index, or -1
rfind(s, ch) ==
    LET hits == {i \in 1..Len(s) : s[i] = ch}
    IN  IF hits = {} THEN -1
        ELSE (CHOOSE i \in hits : \A j \in hits : j <= i) - 1

RECURSIVE lstrip(_, _)
lstrip(s, ch) ==
    IF s # <<>> /\ Head(s) = ch THEN lstrip(Tail(s), ch) ELSE s

RECURSIVE rstrip(_, _)
rstrip(s, ch) ==
    IF s # <<>> /\ s[Len(s)] = ch THEN rstrip(SubSeq(s, 1, Len(s) - 1), ch) ELSE s

\* str.strip(ch): leading and trailing occurrences removed
strip(s, ch) == rstrip(lstrip(s, ch), ch)

\* posixpath.splitext: the extension starts at the last dot of the last
\* component, leading dots of that component not counted
splitext(path) ==
    LET sepIndex == rfind(path, "/")
        dotIndex == rfind(path, ".")
        \* 0-based positions filenameIndex..dotIndex-1 holding something else than a dot
        nondot   == {k \in (sepIndex + 1)..(dotIndex - 1) : path[k + 1] # "."}
    IN  IF dotIndex > sepIndex /\ nondot # {}
        THEN <<SubSeq(path, 1, dotIndex), SubSeq(path, dotIndex + 1, Len(path))>>
        ELSE <<path, <<>> >>

\* posixpath.join of two components
join(a, b) ==
    IF b # <<>> /\ Head(b) = "/" THEN b
    ELSE IF a = <<>> \/ a[Len(a)] = "/" THEN a \o b
    ELSE a \o <<"/">> \o b

----------------------------------------------------------------------------
(* valid_filename *)

extensions ==
    << <<".", "j", "s", "x">>, <<".", "j", "s">>, <<".", "t", "s">>,
       <<".", "t", "s", "x">>, <<".", "j", "s", "o", "n">>,
       <<".", "h", "t", "m", "l">>, <<".", "c", "s", "s">>,
       <<".", "s", "c", "s", "s">> >>

node_modules == <<"n", "o", "d", "e", "_", "m", "o", "d", "u", "l", "e", "s">>
package_lock == <<"p", "a", "c", "k", "a", "g", "e", "-", "l", "o", "c", "k">>
README == <<"R", "E", "A", "D", "M", "E">>

\* valid_filename without its last test
valid_filename_no_readme(file_name) ==
    LET flag1 == \E k \in 1..Len(extensions) : endswith(file_name, extensions[k])
        flag2 == flag1 /\ ~contains(file_name, node_modules)
        flag3 == flag2 /\ ~contains(file_name, package_lock)
    IN  flag3

\* valid_filename without its package-lock test
valid_filename_no_lock(file_name) ==
    LET flag1 == \E k \in 1..Len(extensions) : endswith(file_name, extensions[k])
        flag2 == flag1 /\ ~contains(file_name, node_modules)
        flag4 == flag2 /\ ~contains(file_name, README)
    IN  flag4

valid_filename(file_name) ==
    LET flag1 == \E k \in 1..Len(extensions) : endswith(file_name, extensions[k])
        flag2 == flag1 /\ ~contains(file_name, node_modules)
        flag3 == flag2 /\ ~contains(file_name, package_lock)
        flag4 == flag3 /\ ~contains(file_name, README)
    IN  flag4

----------------------------------------------------------------------------
(* write_to_file: the text of one record *)

\* ext = os.path.splitext(file_name)[1].strip(".")
exttag(file_name) == strip(splitext(file_name)[2], ".")

\* the template with a line feed between the content and the closing fence
block_newline(file_name, details) ==
    <<"f", "i", "l", "e", "n", "a", "m", "e", ":", " ", BQ>> \o file_name
        \o <<BQ, NL, BQ, BQ, BQ>> \o exttag(file_name) \o <<NL>>
        \o details \o <<NL, BQ, BQ, BQ, NL>>

\* f"filename: BQ{file_name}BQ NL BQ BQ BQ{ext} NL {details}BQ BQ BQ NL"
block(file_name, details) ==
    <<"f", "i", "l", "e", "n", "a", "m", "e", ":", " ", BQ>> \o file_name
        \o <<BQ, NL, BQ, BQ, BQ>> \o exttag(file_name) \o <<NL>>
        \o details \o <<BQ, BQ, BQ, NL>>

----------------------------------------------------------------------------
(* The file system: names, directories, os.walk *)

\* 'x.ts'
x_ts == <<"x", ".", "t", "s">>
\* 'y.js'
y_js == <<"y", ".", "j", "s">>
\* 'package-lock.json'
pkg_json == <<"p", "a", "c", "k", "a", "g", "e", "-", "l", "o", "c", "k", ".", "j", "s", "o", "n">>
\* '.json'
dot_json == <<".", "j", "s", "o", "n">>
\* 'n.md'
n_md == <<"n", ".", "m", "d">>
\* 'b.js'
b_js == <<"b", ".", "j", "s">>
\* 'o.json'
o_json == <<"o", ".", "j", "s", "o", "n">>
\* 'prompt.md'
prompt_md == <<"p", "r", "o", "m", "p", "t", ".", "m", "d">>

\* path and content literals
\* 'readme'
FRAG_readme == <<"r", "e", "a", "d", "m", "e">>
\* 'node_module'
FRAG_node_module == <<"n", "o", "d", "e", "_", "m", "o", "d", "u", "l", "e">>
\* 'js'
SUF_js_nodot == <<"j", "s">>
\* '.JS'
SUF_JS == <<".", "J", "S">>
\* '.md'
SUF_md == <<".", "m", "d">>
\* 'src/app.jsx'
EX_app == <<"s", "r", "c", "/", "a", "p", "p", ".", "j", "s", "x">>
\* 'src/node_modules/app.js'
EX_nm == <<"s", "r", "c", "/", "n", "o", "d", "e", "_", "m", "o", "d", "u", "l", "e", "s", "/", "a", "p", "p", ".", "j", "s">>
\* 'package-lock.json'
EX_lock == <<"p", "a", "c", "k", "a", "g", "e", "-", "l", "o", "c", "k", ".", "j", "s", "o", "n">>
\* 'docs/readme-notes.json'
EX_notes == <<"d", "o", "c", "s", "/", "r", "e", "a", "d", "m", "e", "-", "n", "o", "t", "e", "s", ".", "j", "s", "o", "n">>
\* 'a/b.css'
REC_css == <<"a", "/", "b", ".", "c", "s", "s">>
\* 'Makefile'
REC_noext == <<"M", "a", "k", "e", "f", "i", "l", "e">>
\* 'a.b/c'
REC_dirdot == <<"a", ".", "b", "/", "c">>
\* 'x.t.js'
REC_twodots == <<"x", ".", "t", ".", "j", "s">>
\* 'body{}'
REC_body == <<"b", "o", "d", "y", "{", "}">>

\* A directory: present (it exists), listable (os.scandir succeeds: read
\* permission), searchable (files in it can be opened: execute permission),
\* creatable (files can be created in it: write and execute permission),
\* its files in scandir order and its directories.

\* a directory that does not exist: os.scandir raises, and so does open() of a file in it
NoDir ==
    [present |-> FALSE, listable |-> FALSE, searchable |-> FALSE, creatable |-> FALSE,
     files |-> <<>>, dirs |-> <<>>]

\* a directory of mode 0000: os.scandir raises, and so does open() of a file in it
DenyDir ==
    [present |-> TRUE, listable |-> FALSE, searchable |-> FALSE, creatable |-> FALSE,
     files |-> <<>>, dirs |-> <<>>]

\* a directory of mode 0300: os.scandir raises, files can be created in it
WriteOnlyDir ==
    [present |-> TRUE, listable |-> FALSE, searchable |-> TRUE, creatable |-> TRUE,
     files |-> <<>>, dirs |-> <<>>]

\* a directory of mode 0500: it is listed and read, no file can be created in it
ReadOnlyDir(files) ==
    [present |-> TRUE, listable |-> TRUE, searchable |-> TRUE, creatable |-> FALSE,
     files |-> files, dirs |-> <<>>]

\* a directory holding the files `files` (in scandir order) and the directories `dirs`
Dir(files, dirs) ==
    [present |-> TRUE, listable |-> TRUE, searchable |-> TRUE, creatable |-> TRUE,
     files |-> files, dirs |-> dirs]

\* os.walk(top), top-down, onerror=None: a directory that cannot be listed
\* (absent or unreadable) yields nothing and raises nothing; each listed directory yields its
\* (root, files) and then its subdirectories' in order
RECURSIVE walk(_, _)
RECURSIVE walkdirs(_, _)
walk(top, node) ==
    IF ~node.listable THEN <<>>
    ELSE << [root |-> top, files |-> node.files] >> \o walkdirs(top, node.dirs)

walkdirs(top, dirs) ==
    IF dirs = <<>> THEN <<>>
    ELSE walk(join(top, Head(dirs).name), Head(dirs).node) \o walkdirs(top, Tail(dirs))

\* the file_path values the two loops of extract_file_details go through, in order
RECURSIVE paths_of(_, _)
paths_of(root, files) ==
    IF files = <<>> THEN <<>>
    ELSE <<join(root, Head(files))>> \o paths_of(root, Tail(files))

RECURSIVE visit_order(_)
visit_order(triples) ==
    IF triples = <<>> THEN <<>>
    ELSE paths_of(Head(triples).root, Head(triples).files) \o visit_order(Tail(triples))

Range(s) == {s[i] : i \in 1..Len(s)}

\* what a file holds: present or not, and its text
FileState(f, path) ==
    IF path \in DOMAIN f THEN [exists |-> TRUE, data |-> f[path]]
    ELSE [exists |-> FALSE, data |-> <<>>]

\* how a call ended and what the output file holds then
RunEnd(how, f, path) == [ok |-> how = "done", file |-> FileState(f, path)]

\* s with x put at position k (1..Len(s)+1)
InsertAt(s, k, x) == SubSeq(s, 1, k - 1) \o <<x>> \o SubSeq(s, k, Len(s))

----------------------------------------------------------------------------
(* The steps of create_prompt_file *)

\* file_details.insert(0, (file_path, content))
add_record_front(details, file_path, content) == <<<<file_path, content>>>> \o details

\* file_details.append((file_path, content))
add_record(details, file_path, content) == Append(details, <<file_path, content>>)

\* open(output_file, 'a'): the file is created if absent and kept if present
open_a(f, path) == [q \in DOMAIN f \cup {path} |-> IF q \in DOMAIN f THEN f[q] ELSE <<>>]

\* open(output_file, 'w'): the file is created if absent and emptied if present
open_w(f, path) == [q \in DOMAIN f \cup {path} |-> IF q = path THEN <<>> ELSE f[q]]

\* file.write(text) on the open output file
write(f, path, text) == [f EXCEPT ![path] = @ \o text]

\* the triples os.walk(folder_path) yields
Walked == walk(folder_path, tree)

\* the names under which the output file is an entry of the top directory
OutNames == {n \in {o_json, prompt_md} : join(folder_path, n) = output_file}

\* open() of a selected file succeeds: it exists and decodes
readable(file_path) == file_path \in DOMAIN fs /\ file_path \notin bad

Extracted(file_name) == [text |-> "Extracted details from", arg |-> file_name]
Created(name) == [text |-> "Prompt file created successfully", arg |-> name]

\* create_prompt_file is entered: extract_file_details starts with an empty list
Call ==
    /\ pc = "start"
    /\ pc' = "walk"
    /\ file_details' = <<>>
    /\ wi' = 1
    /\ fi' = 1
    /\ UNCHANGED <<folder_path, output_file, ro, tree, fs, bad, wpos, stdout, err,
                   run, fsStart, treeStart, outs, p, verdict, tag>>

\* the inner loop over files is exhausted: os.walk yields the next triple
NextDir ==
    /\ pc = "walk"
    /\ wi <= Len(Walked)
    /\ fi > Len(Walked[wi].files)
    /\ wi' = wi + 1
    /\ fi' = 1
    /\ UNCHANGED <<folder_path, output_file, ro, tree, fs, bad, pc, file_details,
                   wpos, stdout, err, run, fsStart, treeStart, outs, p, verdict, tag>>

\* a file_name whose file_path valid_filename rejects: nothing is read
Skip ==
    /\ pc = "walk"
    /\ wi <= Len(Walked)
    /\ fi <= Len(Walked[wi].files)
    /\ ~valid_filename(join(Walked[wi].root, Walked[wi].files[fi]))
    /\ fi' = fi + 1
    /\ UNCHANGED <<folder_path, output_file, ro, tree, fs, bad, pc, wi, file_details,
                   wpos, stdout, err, run, fsStart, treeStart, outs, p, verdict, tag>>

\* a selected file is read, recorded and announced
Read ==
    /\ pc = "walk"
    /\ wi <= Len(Walked)
    /\ fi <= Len(Walked[wi].files)
    /\ LET file_name == Walked[wi].files[fi]
           file_path == join(Walked[wi].root, file_name)
       IN  /\ valid_filename(file_path)
           /\ readable(file_path)
           /\ file_details' = add_record(file_details, file_path, fs[file_path])
           /\ stdout' = Append(stdout, Extracted(file_name))
    /\ fi' = fi + 1
    /\ UNCHANGED <<folder_path, output_file, ro, tree, fs, bad, pc, wi, wpos, err,
                   run, fsStart, treeStart, outs, p, verdict, tag>>

\* the failure is caught and the file left out
ReadFail_skip ==
    /\ pc = "walk"
    /\ wi <= Len(Walked)
    /\ fi <= Len(Walked[wi].files)
    /\ LET file_path == join(Walked[wi].root, Walked[wi].files[fi])
       IN  /\ valid_filename(file_path)
           /\ ~readable(file_path)
    /\ fi' = fi + 1
    /\ UNCHANGED <<folder_path, output_file, ro, tree, fs, bad, pc, wi, file_details,
                   wpos, stdout, err, run, fsStart, treeStart, outs, p, verdict, tag>>

\* get_file_content raises: nothing catches it, the call ends there
ReadFail ==
    /\ pc = "walk"
    /\ wi <= Len(Walked)
    /\ fi <= Len(Walked[wi].files)
    /\ LET file_path == join(Walked[wi].root, Walked[wi].files[fi])
       IN  /\ valid_filename(file_path)
           /\ ~readable(file_path)
    /\ pc' = "error"
    /\ err' = "read"
    /\ outs' = Append(outs, RunEnd(pc', fs, output_file))
    /\ UNCHANGED <<folder_path, output_file, ro, tree, fs, bad, wi, fi, file_details,
                   wpos, stdout, run, fsStart, treeStart, p, verdict, tag>>

\* os.walk is exhausted: extract_file_details returns file_details
Return ==
    /\ pc = "walk"
    /\ wi > Len(Walked)
    /\ pc' = "open"
    /\ UNCHANGED <<folder_path, output_file, ro, tree, fs, bad, wi, fi, file_details,
                   wpos, stdout, err, run, fsStart, treeStart, outs, p, verdict, tag>>

\* open(output_file, 'w') succeeds: an existing file may be written, and a file
\* in the walked folder needs the folder to exist and be searchable, and to
\* allow creation when the file is new
OpenAllowed ==
    /\ output_file \notin ro
    /\ OutNames # {} =>
          /\ tree.present
          /\ tree.searchable
          /\ output_file \notin DOMAIN fs => tree.creatable

\* write_to_file opens the output file; a file created inside the walked
\* folder becomes an entry of it, anywhere in scandir order
OpenOutput ==
    /\ pc = "open"
    /\ OpenAllowed
    /\ fs' = open_w(fs, output_file)
    /\ IF OutNames # {} /\ output_file \notin DOMAIN fs /\ tree.listable
       THEN \E n \in OutNames : \E k \in 1..(Len(tree.files) + 1) :
                tree' = [tree EXCEPT !.files = InsertAt(@, k, n)]
       ELSE tree' = tree
    /\ wpos' = 0
    /\ pc' = "write"
    /\ UNCHANGED <<folder_path, output_file, ro, bad, wi, fi, file_details, stdout,
                   err, run, fsStart, treeStart, outs, p, verdict, tag>>

\* open(output_file, 'w') raises (FileNotFoundError, PermissionError): nothing
\* is created or written, the call ends there
OpenOutputFail ==
    /\ pc = "open"
    /\ ~OpenAllowed
    /\ pc' = "error"
    /\ err' = "open"
    /\ outs' = Append(outs, RunEnd(pc', fs, output_file))
    /\ UNCHANGED <<folder_path, output_file, ro, tree, fs, bad, wi, fi, file_details,
                   wpos, stdout, run, fsStart, treeStart, p, verdict, tag>>

\* one turn of the loop of write_to_file
WriteBlock ==
    /\ pc = "write"
    /\ wpos < Len(file_details)
    /\ LET rec == file_details[wpos + 1]
       IN  fs' = write(fs, output_file, block(rec[1], rec[2]))
    /\ wpos' = wpos + 1
    /\ UNCHANGED <<folder_path, output_file, ro, tree, bad, pc, wi, fi, file_details,
                   stdout, err, run, fsStart, treeStart, outs, p, verdict, tag>>

\* write_to_file called on its own: the loop is over, the with block closes
\* the file and the function returns; nothing is printed
CloseOutput ==
    /\ pc = "write"
    /\ wpos = Len(file_details)
    /\ pc' = "done"
    /\ outs' = Append(outs, RunEnd(pc', fs, output_file))
    /\ UNCHANGED <<folder_path, output_file, ro, tree, fs, bad, wi, fi, file_details,
                   wpos, stdout, err, run, fsStart, treeStart, p, verdict, tag>>

\* the loop is over: the file is closed, create_prompt_file prints and returns
Finish ==
    /\ pc = "write"
    /\ wpos = Len(file_details)
    /\ stdout' = Append(stdout, Created(output_file))
    /\ pc' = "done"
    /\ outs' = Append(outs, RunEnd(pc', fs, output_file))
    /\ UNCHANGED <<folder_path, output_file, ro, tree, fs, bad, wi, fi, file_details,
                   wpos, err, run, fsStart, treeStart, p, verdict, tag>>

\* create_prompt_file is called again with the same arguments
Rerun ==
    /\ pc \in {"done", "error"}
    /\ run < MaxRuns
    /\ run' = run + 1
    /\ pc' = "start"
    /\ err' = "none"
    /\ fsStart' = fs
    /\ treeStart' = tree
    /\ file_details' = <<>>
    /\ wi' = 1
    /\ fi' = 1
    /\ wpos' = 0
    /\ UNCHANGED <<folder_path, output_file, ro, tree, fs, bad, stdout, outs, p, verdict, tag>>

----------------------------------------------------------------------------
(* The inputs of a call: folder, directory tree, output path *)

\* lists without repetition, of at most n names out of S
RECURSIVE ListsUpTo(_, _)
ListsUpTo(S, n) ==
    IF n = 0 THEN {<<>>}
    ELSE LET shorter == ListsUpTo(S, n - 1)
         IN  shorter \cup {Append(l, x) : l \in shorter, x \in S}

Injective(l) == \A i, j \in 1..Len(l) : i # j => l[i] # l[j]

TopNames == {x_ts, pkg_json, dot_json, n_md}

FileLists == {l \in ListsUpTo(TopNames, MaxFiles) : Injective(l)}

DirLists ==
    { <<>>,
      << [name |-> node_modules, node |-> Dir(<<y_js>>, <<>>)] >>,
      << [name |-> <<"s">>, node |-> Dir(<<b_js>>, <<>>)],
         [name |-> <<"u">>, node |-> DenyDir] >> }

\* the folder of the end-to-end scenario: x.ts, package-lock.json, node_modules/y.js
ScenarioTree ==
    Dir(<<x_ts, pkg_json>>, << [name |-> node_modules, node |-> Dir(<<y_js>>, <<>>)] >>)

Trees ==
    {NoDir, DenyDir, WriteOnlyDir, ReadOnlyDir(<<x_ts>>), ScenarioTree,
     Dir(<<x_ts, dot_json>>, <<>>)}
        \cup {Dir(f, d) : f \in FileLists, d \in DirLists}

Folders == { <<"p">>, <<"p", "/">>, README }

\* what the files hold before the first call
ContentOf(path) == IF path[Len(path)] = "d" THEN <<>> ELSE <<"c", path[Len(path)]>>

OldOutput == <<"o">>

AllPaths(folder, t) == Range(visit_order(walk(folder, t)))

InitVars(folder, t, out, f, b, r, pc0, details, path) ==
    /\ folder_path = folder
    /\ output_file = out
    /\ tree = t
    /\ fs = f
    /\ bad = b
    /\ ro = r
    /\ pc = pc0
    /\ wi = 1
    /\ fi = 1
    /\ file_details = details
    /\ wpos = 0
    /\ stdout = <<>>
    /\ err = "none"
    /\ run = 1
    /\ fsStart = f
    /\ treeStart = t
    /\ outs = <<>>
    /\ p = path
    /\ verdict = FALSE
    /\ tag = <<>>

\* create_prompt_file(folder, out) is about to be called
InitRun(folder, t, out, f, b, r) ==
    InitVars(folder, t, out, f, b, r, "start", <<>>, <<>>)

\* the files of tree t under folder, each with its content
FilesOf(folder, t) == [q \in AllPaths(folder, t) |-> ContentOf(q)]

\* one unreadable file at most
BadSets(folder, t) == {{}} \cup {{q} : q \in AllPaths(folder, t)}

Init ==
    \E folder \in Folders, t \in Trees :
        \* the output file lies outside the folder, absent or present
        \/ \E b \in BadSets(folder, t), old \in BOOLEAN :
              \E r \in (IF old THEN {{}, {prompt_md}} ELSE {{}}) :
                 InitRun(folder, t, prompt_md,
                         IF old THEN FilesOf(folder, t) @@ (prompt_md :> OldOutput)
                         ELSE FilesOf(folder, t), b, r)
        \* the output file lies in the folder and does not exist yet
        \/ \E n \in {o_json, prompt_md}, b \in BadSets(folder, t) :
              InitRun(folder, t, join(folder, n), FilesOf(folder, t), b, {})
        \* the output file lies in the folder and exists, writable or read-only:
        \* the folder lists it
        \/ /\ t.listable
           /\ \E n \in {o_json, prompt_md}, k \in 1..(Len(t.files) + 1) :
                 LET t2 == [t EXCEPT !.files = InsertAt(@, k, n)]
                 IN  \E b \in BadSets(folder, t2), r \in {{}, {join(folder, n)}} :
                        InitRun(folder, t2, join(folder, n),
                                [q \in AllPaths(folder, t2) |->
                                    IF q = join(folder, n) THEN OldOutput
                                    ELSE ContentOf(q)], b, r)

Next ==
    \/ Call
    \/ NextDir
    \/ Skip
    \/ Read
    \/ ReadFail
    \/ Return
    \/ OpenOutput
    \/ OpenOutputFail
    \/ WriteBlock
    \/ Finish
    \/ Rerun

Spec == Init /\ [][Next]_vars

----------------------------------------------------------------------------
(* valid_filename and the language tag on path strings of every shape *)

\* valid_filename(p) and the tag of p are computed
Check ==
    /\ pc = "ask"
    /\ verdict' = valid_filename(p)
    /\ tag' = exttag(p)
    /\ pc' = "answered"
    /\ UNCHANGED <<folder_path, output_file, ro, tree, fs, bad, wi, fi, file_details,
                   wpos, stdout, err, run, fsStart, treeStart, outs, p>>

RECURSIVE Flatten(_)
Flatten(ss) == IF ss = <<>> THEN <<>> ELSE Head(ss) \o Flatten(Tail(ss))

\* all lists of at most n elements of S
RECURSIVE SeqsUpTo(_, _)
SeqsUpTo(S, n) ==
    IF n = 0 THEN {<<>>}
    ELSE LET shorter == SeqsUpTo(S, n - 1)
         IN  shorter \cup {Append(l, x) : l \in shorter, x \in S}

Frags ==
    { <<"a">>, <<"/">>, <<".">>, <<"x">>, <<"s">>, node_modules, package_lock, README,
      FRAG_readme, FRAG_node_module }

Suffixes ==
    { <<>>, SUF_js_nodot, SUF_JS, SUF_md } \cup Range(extensions)

Examples == { EX_app, EX_nm, EX_lock, EX_notes }

Paths == {Flatten(l) \o suf : l \in SeqsUpTo(Frags, MaxFrags), suf \in Suffixes} \cup Examples

NoFiles == [q \in {} |-> <<>>]

InitPath ==
    \E path \in Paths :
        InitVars(<<>>, NoDir, <<>>, NoFiles, {}, {}, "ask", <<>>, path)

NextPath == Check

SpecPath == InitPath /\ [][NextPath]_vars

----------------------------------------------------------------------------
(* write_to_file on record lists of every shape *)

RecPaths == { REC_css, REC_noext, dot_json, REC_dirdot, REC_twodots }

RecContents == { <<>>, REC_body, <<"z", NL>> }

Records == {<<q, c>> : q \in RecPaths, c \in RecContents}

InitWrite ==
    \E details \in SeqsUpTo(Records, MaxRecs), old \in BOOLEAN :
        InitVars(<<"p">>, Dir(<<>>, <<>>), prompt_md,
                 IF old THEN (prompt_md :> OldOutput) ELSE NoFiles,
                 {}, {}, "open", details, <<>>)

NextWrite ==
    \/ OpenOutput
    \/ WriteBlock
    \/ CloseOutput

SpecWrite == InitWrite /\ [][NextWrite]_vars

----------------------------------------------------------------------------
(* The stated properties, in their own words: suffixes, substrings, blocks *)

\* the eight allow-listed suffixes
AllowList ==
    { <<".", "j", "s", "x">>, <<".", "j", "s">>, <<".", "t", "s">>, <<".", "t", "s", "x">>, <<".", "j", "s", "o", "n">>, <<".", "h", "t", "m", "l">>, <<".", "c", "s", "s">>, <<".", "s", "c", "s", "s">> }

\* the three excluded substrings
Excluded ==
    { <<"n", "o", "d", "e", "_", "m", "o", "d", "u", "l", "e", "s">>,
      <<"p", "a", "c", "k", "a", "g", "e", "-", "l", "o", "c", "k">>,
      <<"R", "E", "A", "D", "M", "E">> }

\* q = u \o e for some u
HasSuffix(q, e) == Len(e) <= Len(q) /\ q = SubSeq(q, 1, Len(q) - Len(e)) \o e

\* q = u \o sub \o v for some u, v
Occurs(sub, q) ==
    \E a \in 0..(Len(q) - Len(sub)) :
        q = SubSeq(q, 1, a) \o sub \o SubSeq(q, a + Len(sub) + 1, Len(q))

\* the selection predicate as stated
Selected(q) ==
    /\ \E e \in AllowList : HasSuffix(q, e)
    /\ \A sub \in Excluded : ~Occurs(sub, q)

\* the last component of a path: what follows its last "/"
RECURSIVE LastComponent(_)
LastComponent(q) ==
    IF \E i \in 1..Len(q) : q[i] = "/"
    THEN LastComponent(Tail(q)) ELSE q

\* what follows the last dot of q
RECURSIVE AfterLastDot(_)
AfterLastDot(q) ==
    IF \E i \in 1..Len(q) : q[i] = "." THEN AfterLastDot(Tail(q)) ELSE q

RECURSIVE DropLeadingDots(_)
DropLeadingDots(q) ==
    IF q # <<>> /\ Head(q) = "." THEN DropLeadingDots(Tail(q)) ELSE q

\* the extension of a path without its dot; empty when the name has none (a
\* name's leading dots start no extension)
Ext(q) ==
    LET name == DropLeadingDots(LastComponent(q))
    IN  IF \E i \in 1..Len(name) : name[i] = "." THEN AfterLastDot(name) ELSE <<>>

\* the block of one record as stated
StatedBlock(path, content) ==
    <<"f", "i", "l", "e", "n", "a", "m", "e", ":", " ", BQ>> \o path \o <<BQ>> \o <<NL>>
        \o <<BQ, BQ, BQ>> \o Ext(path) \o <<NL>> \o content \o <<BQ, BQ, BQ>> \o <<NL>>

\* the blocks of a list of records, one after the other
RECURSIVE StatedRender(_)
StatedRender(records) ==
    IF records = <<>> THEN <<>>
    ELSE StatedBlock(Head(records)[1], Head(records)[2]) \o StatedRender(Tail(records))

\* the records of the selected paths of a visit order, with the content f gives
RECURSIVE StatedRecords(_, _)
StatedRecords(order, f) ==
    IF order = <<>> THEN <<>>
    ELSE (IF Selected(Head(order)) THEN << <<Head(order), f[Head(order)]>> >> ELSE <<>>)
            \o StatedRecords(Tail(order), f)

\* the expected output for [('a/b.css', 'body{}')]
EX_css_output == <<"f", "i", "l", "e", "n", "a", "m", "e", ":", " ", BQ, "a", "/", "b", ".", "c", "s", "s", BQ, NL, BQ, BQ, BQ, "c", "s", "s", NL, "b", "o", "d", "y", "{", "}", BQ, BQ, BQ, NL>>

----------------------------------------------------------------------------
(* C1 *)

\* C1: valid_filename(p) is true exactly when p ends with one of the eight
\* suffixes and holds none of the three substrings; 'src/app.jsx' and
\* 'docs/readme-notes.json' are accepted, 'src/node_modules/app.js' and
\* 'package-lock.json' are rejected.
C1_ValidIffSuffixAndNoExcluded ==
    pc = "answered" =>
        /\ verdict <=> Selected(p)
        /\ p \in {EX_app, EX_notes} => verdict
        /\ p \in {EX_nm, EX_lock} => ~verdict

\* the lowercase 'readme' boundary case has been answered, and accepted
C1_Witness == pc = "answered" /\ p = EX_notes /\ verdict

----------------------------------------------------------------------------
(* C2 *)

\* C2: write_to_file leaves in the output file exactly the stated blocks of
\* the records, in order, whatever the file held before; for
\* [('a/b.css', 'body{}')] that is the literal text of the example.
C2_OutputIsConcatenationOfBlocks ==
    pc = "done" =>
        /\ fs[output_file] = StatedRender(file_details)
        /\ file_details = << <<REC_css, REC_body>> >> => fs[output_file] = EX_css_output

\* two records were written, one of a path without extension, over an old file
C2_Witness ==
    /\ pc = "done"
    /\ Len(file_details) = 2
    /\ file_details[1][1] = REC_noext
    /\ file_details[2] = <<REC_css, REC_body>>
    /\ output_file \in DOMAIN fsStart

----------------------------------------------------------------------------
(* C10 *)

\* C10: for every collected file the language tag written after the opening
\* fence is non-empty and is the allow-listed suffix of the path without its dot.
C10_TagIsAllowListedSuffix ==
    \A i \in 1..(IF pc \in {"write", "done"} THEN wpos ELSE 0) :
        /\ exttag(file_details[i][1]) # <<>>
        /\ \E e \in AllowList :
              HasSuffix(file_details[i][1], e) /\ exttag(file_details[i][1]) = Tail(e)

----------------------------------------------------------------------------
(* What a call has to go through, as the call started *)

\* the file paths of the folder in visit order, as the current call found them
Order == visit_order(walk(folder_path, treeStart))

\* the same files by their location inside the folder
RelOrder == visit_order(walk(<<>>, treeStart))

RECURSIVE SumLens(_, _)
SumLens(triples, n) ==
    IF n = 0 THEN 0 ELSE Len(triples[n].files) + SumLens(triples, n - 1)

\* how many files the two loops have gone past
VisitedCount == SumLens(walk(folder_path, treeStart), wi - 1) + fi - 1

PathsOf(records) == [i \in 1..Len(records) |-> records[i][1]]

IsCreated(m) == m.text = "Prompt file created successfully"

IsOk(e) == e.ok

\* the output file is one of the files the walk selects
OutputIsInput == OutNames # {} /\ Selected(output_file)

\* the steps of one call
RunStep ==
    \/ Call
    \/ NextDir
    \/ Skip
    \/ Read
    \/ Return
    \/ OpenOutput
    \/ WriteBlock
    \/ Finish

----------------------------------------------------------------------------
(* C3 *)

\* the records of the files whose location inside the folder is selected
RECURSIVE LocationRecords(_, _, _)
LocationRecords(rel, full, f) ==
    IF rel = <<>> THEN <<>>
    ELSE (IF Selected(Head(rel)) THEN << <<Head(full), f[Head(full)]>> >> ELSE <<>>)
            \o LocationRecords(Tail(rel), Tail(full), f)

\* C3: the rendered blocks are exactly those of the files under the root whose
\* location inside the folder is selected, whatever the root folder's own path
\* (checked for an output file that is not in the folder).
C3_BlocksAreFilesSelectedByLocation ==
    (pc = "done" /\ OutNames = {}) =>
        fs[output_file] = StatedRender(LocationRecords(RelOrder, Order, fsStart))

----------------------------------------------------------------------------
(* C4 *)

\* C4: when the folder does not exist or cannot be accessed the call ends with
\* an error: the output file is neither created nor modified and no completion
\* message is emitted.
C4_MissingFolderAborts ==
    ~treeStart.listable =>
        /\ pc \notin {"write", "done"}
        /\ FileState(fs, output_file) = FileState(fsStart, output_file)
        /\ \A i \in 1..Len(stdout) : ~IsCreated(stdout[i])

----------------------------------------------------------------------------
(* C5 *)

\* C5: when reading a selected file fails the call ends there with the error:
\* the records are those of the files read before it, no later file is read,
\* the output file keeps what it held (or its absence), no completion message
\* is emitted; a call that goes on to write has met no unreadable selected file.
C5_ReadFailureAborts ==
    /\ (pc = "error" /\ err = "read") =>
          /\ ~readable(Order[VisitedCount + 1])
          /\ Selected(Order[VisitedCount + 1])
          /\ file_details = StatedRecords(SubSeq(Order, 1, VisitedCount), fsStart)
          /\ fs = fsStart
          /\ tree = treeStart
          /\ outs[Len(outs)] = [ok |-> FALSE, file |-> FileState(fsStart, output_file)]
          /\ Len(SelectSeq(stdout, IsCreated)) = Len(SelectSeq(outs, IsOk))
          /\ ~ENABLED RunStep
    /\ pc \in {"open", "write", "done"} =>
          \A q \in Range(Order) : Selected(q) => q \notin bad

\* a read failed after another file had been read, with an output file present
C5_Witness ==
    /\ pc = "error"
    /\ err = "read"
    /\ Len(file_details) >= 1
    /\ output_file \in DOMAIN fsStart
    /\ VisitedCount + 1 < Len(Order)

----------------------------------------------------------------------------
(* C6 *)

\* C6 as stated: two calls in a row on the same folder leave byte-identical
\* output files, for every output path.
C6_RunsLeaveSameOutput ==
    \A i \in 1..(Len(outs) - 1) : outs[i].file = outs[i + 1].file

\* C6 amended: two calls in a row leave byte-identical output files whenever
\* the output file is not itself a file the walk selects (it lies outside the
\* folder, or valid_filename rejects its path).
C6_RunsLeaveSameOutputUnlessInput ==
    ~OutputIsInput => \A i \in 1..(Len(outs) - 1) : outs[i].file = outs[i + 1].file

\* two successful calls wrote blocks to an output file inside the folder
C6_Witness ==
    /\ Len(outs) >= 2
    /\ outs[1].ok /\ outs[2].ok
    /\ outs[2].file.data # <<>>
    /\ OutNames # {}
    /\ ~OutputIsInput

----------------------------------------------------------------------------
(* C7 *)

\* other texts the output file could have held before the call
AltOld == { <<>>, <<"o">>, <<"z", "z">> }

\* the output of a call that starts from fsStart with the output file holding c
OutputFrom(c) == StatedRender(StatedRecords(Order, [fsStart EXCEPT ![output_file] = c]))

\* C7 as stated: after a successful call the output file holds exactly the
\* rendering of the records of this call, and that does not depend on what the
\* file held before.
C7_OutputIsRenderingWhateverItHeld ==
    pc = "done" =>
        /\ fs[output_file] = StatedRender(file_details)
        /\ output_file \in DOMAIN fsStart => \A c \in AltOld : fs[output_file] = OutputFrom(c)

\* C7 amended: after a successful call the output file holds exactly the
\* rendering of the records of this call; what it held before does not matter
\* unless the output file is itself one of the collected files, and then what
\* it held is the content of its own record.
C7_OutputIsRenderingOfThisRun ==
    pc = "done" =>
        /\ fs[output_file] = StatedRender(file_details)
        /\ output_file \in DOMAIN fsStart =>
              IF output_file \in Range(PathsOf(file_details))
              THEN <<output_file, fsStart[output_file]>> \in Range(file_details)
              ELSE \A c \in AltOld : fs[output_file] = OutputFrom(c)

\* a successful call wrote blocks over an output file that held text
C7_Witness ==
    /\ pc = "done"
    /\ output_file \in DOMAIN fsStart
    /\ fsStart[output_file] # <<>>
    /\ file_details # <<>>
    /\ output_file \notin Range(PathsOf(file_details))

----------------------------------------------------------------------------
(* C8 *)

\* the folder exists and no file under it is selected
NothingSelected ==
    /\ treeStart.present
    /\ \A q \in Range(Order) : ~Selected(q)

\* as the call started, the output file could be opened for writing: it is not
\* read-only, and when it lies in the folder the folder can be searched, and
\* allows a new file when the output file does not exist yet
OutputWritable ==
    /\ output_file \notin ro
    /\ OutNames # {} =>
          /\ treeStart.searchable
          /\ output_file \notin DOMAIN fsStart => treeStart.creatable

\* C8 as stated: when the folder exists and holds no selected file the call
\* never ends in an error and never stops before its end, and at its end the
\* output file is empty and the completion message is the last thing emitted.
C8_NothingSelectedGivesEmptyOutput ==
    NothingSelected =>
        /\ pc # "error"
        /\ pc # "done" => ENABLED RunStep
        /\ pc = "done" =>
              /\ FileState(fs, output_file) = [exists |-> TRUE, data |-> <<>>]
              /\ stdout[Len(stdout)] = Created(output_file)
              /\ file_details = <<>>

\* C8 amended: the same, provided the output file can be opened for writing.
C8_NothingSelectedGivesEmptyOutputIfWritable ==
    (NothingSelected /\ OutputWritable) =>
        /\ pc # "error"
        /\ pc # "done" => ENABLED RunStep
        /\ pc = "done" =>
              /\ FileState(fs, output_file) = [exists |-> TRUE, data |-> <<>>]
              /\ stdout[Len(stdout)] = Created(output_file)
              /\ file_details = <<>>

\* a call over a folder with files, none selected, has emptied an old output file
C8_Witness ==
    /\ pc = "done"
    /\ NothingSelected
    /\ OutputWritable
    /\ folder_path = <<"p">>
    /\ Len(Order) >= 2
    /\ output_file \in DOMAIN fsStart
    /\ fsStart[output_file] # <<>>

----------------------------------------------------------------------------
(* C9 *)

\* C9: files are read one after another in walk order, and the blocks of the
\* output are those of the selected files in the order they were visited, each
\* once.
C9_BlocksFollowVisitOrder ==
    /\ pc # "start" =>
          /\ file_details = StatedRecords(SubSeq(Order, 1, VisitedCount), fsStart)
          /\ \A i, j \in 1..Len(file_details) : i # j => file_details[i][1] # file_details[j][1]
    /\ (pc # "start" /\ run = 1) =>
          /\ Len(stdout) >= Len(file_details)
          /\ \A i \in 1..Len(file_details) :
                stdout[i] = Extracted(LastComponent(file_details[i][1]))
    /\ pc = "write" => fs[output_file] = StatedRender(SubSeq(file_details, 1, wpos))
    /\ pc = "done" => fs[output_file] = StatedRender(StatedRecords(Order, fsStart))

\* two blocks were written in visit order, which is not name order, a file
\* between them having been skipped
C9_Witness ==
    /\ pc = "done"
    /\ Len(file_details) = 2
    /\ file_details[1][1] = join(folder_path, x_ts)
    /\ file_details[2][1] = join(join(folder_path, <<"s">>), b_js)
    /\ Len(Order) = 3

====
